---- MODULE Spec2Model ----
(***************************************************************************)
(* A model of the numeric core of MicroPyDash: the circular PlotBuffer     *)
(* (plot_buffer.py / plot_trace.py), its generator-based iteration, the    *)
(* AxisScaler "nice number" tick placement (axis_scaler.py), and the data  *)
(* sources and autoscaling of Plot (upd_plot.py).                          *)
(*                                                                         *)
(* Python's None is modelled by the empty tuple and a present value v by   *)
(* the one-element tuple <<v>>, so that the two can be compared.           *)
(***************************************************************************)
EXTENDS Integers, Sequences, FiniteSets, TLC

\* ------------------------------------------------------------------ bounds

\* Largest buffer capacity explored (capacities 0..MaxSize).
MaxSize == 3

\* Sample values are the integers -MaxVal..MaxVal (all exactly representable
\* by the array type codes "f" and "h" the buffers are created with).
MaxVal == 1

\* Largest buffer capacity explored together with generators.
MaxIterSize == 2

\* Number of put/get calls explored while generators are alive.
MaxOps == 3

\* niceNum is applied to the ranges n/d, n in -1..MaxNum, d in Dens.
MaxNum == 48

\* The number of Plot calls made in a run.
MaxPlotOps == 4

\* The number of calls made on a Plot that is drawn.
MaxDrawOps == 3

Values == (0 - MaxVal)..MaxVal

Dens == {1, 4, 100}

\* The exponents searched for floor (log10 (x)).
Exponents == (0 - 6)..6

\* The generator objects followed by the model.
Iters == {"g1", "g2"}

\* --------------------------------------------------------------- optionals

None == << >>

Some(v) == << v >>

IsNone(o) == o = << >>

Val(o) == o[1]

\* ------------------------------------------------------------------- state

VARIABLES
    size,        \* PlotBuffer.size
    data,        \* PlotBuffer.data: [0..size-1 -> value], empty when there is no array
    index_put,   \* PlotBuffer.index_put
    index_get,   \* PlotBuffer.index_get
    count,       \* PlotBuffer.count
    max_val,     \* PlotBuffer.max_val (None or <<v>>)
    min_val,     \* PlotBuffer.min_val (None or <<v>>)
    gens,        \* the generator objects made by generate_points / __iter__
    op,          \* the last PlotBuffer method called: "put" or "get"
    ret,         \* what the last get () returned (None or <<v>>)
    queue,       \* history: the abstract bounded FIFO queue
    inserted,    \* history: every value ever passed to put
    nops,        \* number of put/get calls made (bounded where generators run)
    scaler,      \* the AxisScaler object: its attributes
    tickgen,     \* the generator objects made by generate_ticks
    call,        \* the last AxisScaler or Plot call: name, arguments, result,
                 \* exception
    plot,        \* the Plot object: its axis ranges and its data sources
    dash         \* the MicroPyDash object, its widgets and the Button class

bufvars == <<size, data, index_put, index_get, count, max_val, min_val>>

histvars == <<queue, inserted>>

vars == <<size, data, index_put, index_get, count, max_val, min_val,
          gens, op, ret, queue, inserted, nops, scaler, tickgen, call, plot,
          dash>>

\* Every variable but the AxisScaler's.
bufallvars == <<size, data, index_put, index_get, count, max_val, min_val,
                gens, op, ret, queue, inserted, nops, plot, dash>>

\* Every variable but the PlotBuffer's.
scvars == <<scaler, tickgen, call, plot, dash>>

\* ------------------------------------------------------------ PlotBuffer

\* "if not self.data": there is no array (size None or <= 0).
NoData(d) == DOMAIN d = {}

\* A generator that has not been made yet.
IdleGen == [pc |-> "idle", index_get |-> 0, left |-> 0, out |-> << >>,
            snap |-> << >>, dirty |-> FALSE]

\* PlotBuffer.__init__ (size): an array of zeros when size > 0, else none.
BufferInit(n) ==
    /\ size = n
    /\ data = IF n > 0 THEN [i \in 0..(n - 1) |-> 0] ELSE << >>
    /\ index_put = 0
    /\ index_get = 0
    /\ count = 0
    /\ max_val = None
    /\ min_val = None
    /\ gens = [g \in Iters |-> IdleGen]
    /\ op = "init"
    /\ ret = None
    /\ queue = << >>
    /\ inserted = {}
    /\ nops = 0

\* Mutant of NewMax: the comparison is the wrong way round.
NewMaxWrongWay(old, value) ==
    IF IsNone(old) \/ value < Val(old) THEN Some(value) ELSE old

\* The running maximum after put (value).
NewMax(old, value) ==
    IF IsNone(old) \/ value > Val(old) THEN Some(value) ELSE old

\* Mutant of NewMin: a missing value counts as 0 instead of "nothing yet".
NewMinFromZero(old, value) ==
    IF value < (IF IsNone(old) THEN 0 ELSE Val(old)) THEN Some(value)
    ELSE IF IsNone(old) THEN Some(0) ELSE old

\* The running minimum after put (value).
NewMin(old, value) ==
    IF IsNone(old) \/ value < Val(old) THEN Some(value) ELSE old

\* History: the abstract queue of capacity n after an insert.
QueuePut(q, n, value) ==
    IF n <= 0 THEN q
    ELSE IF Len(q) >= n THEN Append(Tail(q), value)
    ELSE Append(q, value)

\* History: a put or get happened while generator g was alive.
Touch(g) == IF g.pc = "idle" THEN g ELSE [g EXCEPT !.dirty = TRUE]

\* Mutant of NextIndex: the cursor stops at the last cell instead of wrapping.
NextIndexStuck(i) == IF i + 1 >= size THEN i ELSE i + 1

\* "(self.index_put + 1) % self.size", and the same for index_get: the cell
\* after cell i, round the array.
NextIndex(i) == (i + 1) % size

\* Mutant of Overflow: off by one, the buffer is taken to be full one item late.
OverflowLate == count > size

\* "if self.count >= self.size": the put overwrites the oldest item.
Overflow == count >= size

\* PlotBuffer.put (value)
Put(value) ==
    /\ max_val' = NewMax(max_val, value)
    /\ min_val' = NewMin(min_val, value)
    /\ IF NoData(data)
       THEN UNCHANGED <<data, index_put, index_get, count>>
       ELSE /\ data' = [data EXCEPT ![index_put] = value]
            /\ index_put' = NextIndex(index_put)
            /\ IF Overflow
               THEN /\ index_get' = NextIndex(index_get)
                    /\ UNCHANGED count
               ELSE /\ count' = count + 1
                    /\ UNCHANGED index_get
    /\ UNCHANGED size
    /\ op' = "put"
    /\ ret' = None
    /\ queue' = QueuePut(queue, size, value)
    /\ inserted' = inserted \cup {value}
    /\ gens' = [g \in Iters |-> Touch(gens[g])]

\* Mutant of NothingToGet: the emptiness test lets a count of 0 through.
NothingToGetLax == NoData(data) \/ count < 0

\* "if not self.data or self.count <= 0": get () has nothing to return.
NothingToGet == NoData(data) \/ count <= 0

\* PlotBuffer.get ()
Get ==
    /\ IF NothingToGet
       THEN /\ ret' = None
            /\ UNCHANGED <<count, index_get>>
       ELSE /\ count' = count - 1
            /\ ret' = Some(data[index_get])
            /\ index_get' = NextIndex(index_get)
    /\ UNCHANGED <<size, data, index_put, max_val, min_val, inserted>>
    /\ op' = "get"
    /\ queue' = IF queue = << >> THEN queue ELSE Tail(queue)
    /\ gens' = [g \in Iters |-> Touch(gens[g])]

\* PlotBuffer.__len__ ()
BufLen == count

\* PlotBuffer.min_value / max_value as one pair: None while nothing was put.
CurrentExtent ==
    IF IsNone(min_val) \/ IsNone(max_val) THEN None
    ELSE <<Val(min_val), Val(max_val)>>

\* Mutant of Points: reads from the start of the array, not the read pointer.
PointsFromZero ==
    IF NoData(data) THEN << >>
    ELSE [k \in 1..count |-> data[(k - 1) % size]]

\* generate_points () / __iter__ () run to completion with no call in
\* between: the values yielded, in order.
Points ==
    IF NoData(data) THEN << >>
    ELSE [k \in 1..count |-> data[(index_get + (k - 1)) % size]]

\* Calling generate_points () / __iter__ (): makes a generator object; a
\* Python generator runs none of its body before the first next ().
GenCall(g) ==
    /\ gens[g].pc = "idle"
    /\ g = "g2" => gens["g1"].pc # "idle"    \* g1 names the first one made
    /\ gens' = [gens EXCEPT ![g] = [IdleGen EXCEPT !.pc = "created",
                                                   !.snap = queue]]
    /\ UNCHANGED <<bufvars, op, ret, histvars, nops>>

\* Mutant of GenResume: the loop runs once too often.
GenResumeOneMore(gen) ==
    IF gen.pc = "created"
    THEN IF NoData(data)
         THEN [gen EXCEPT !.pc = "done"]
         ELSE [gen EXCEPT !.pc = "running",
                          !.out = Append(gen.out, data[index_get]),
                          !.index_get = (index_get + 1) % size,
                          !.left = count]
    ELSE IF gen.left = 0
         THEN [gen EXCEPT !.pc = "done"]
         ELSE [gen EXCEPT !.out = Append(gen.out, data[gen.index_get]),
                          !.index_get = (gen.index_get + 1) % size,
                          !.left = gen.left - 1]

\* Mutant of GenResume: the loop starts at the array's first cell, not at
\* the read pointer.
GenResumeFromZero(gen) ==
    IF gen.pc = "created"
    THEN IF NoData(data) \/ count = 0
         THEN [gen EXCEPT !.pc = "done"]
         ELSE [gen EXCEPT !.pc = "running",
                          !.out = Append(gen.out, data[0]),
                          !.index_get = 1 % size,
                          !.left = count - 1]
    ELSE IF gen.left = 0
         THEN [gen EXCEPT !.pc = "done"]
         ELSE [gen EXCEPT !.out = Append(gen.out, data[gen.index_get]),
                          !.index_get = (gen.index_get + 1) % size,
                          !.left = gen.left - 1]

\* One next () on a generator: the body of generate_points up to its next
\* yield or its end.
GenResume(gen) ==
    IF gen.pc = "created"
    THEN IF NoData(data) \/ count = 0
         THEN [gen EXCEPT !.pc = "done"]
         ELSE [gen EXCEPT !.pc = "running",
                          !.out = Append(gen.out, data[index_get]),
                          !.index_get = (index_get + 1) % size,
                          !.left = count - 1]
    ELSE IF gen.left = 0
         THEN [gen EXCEPT !.pc = "done"]
         ELSE [gen EXCEPT !.out = Append(gen.out, data[gen.index_get]),
                          !.index_get = (gen.index_get + 1) % size,
                          !.left = gen.left - 1]

GenNext(g) ==
    /\ gens[g].pc \in {"created", "running"}
    /\ gens' = [gens EXCEPT ![g] = GenResume(gens[g])]
    /\ UNCHANGED <<bufvars, op, ret, histvars, nops>>

\* ------------------------------------------------------------ rationals
\* The floats of axis_scaler.py are modelled by exact rationals <<n, d>>,
\* d > 0, in lowest terms.

RECURSIVE Gcd(_, _)
Gcd(a, b) == IF b = 0 THEN a ELSE Gcd(b, a % b)

Abs(x) == IF x < 0 THEN 0 - x ELSE x

Rat(n, d) == LET g == Gcd(Abs(n), d) IN << n \div g, d \div g >>

RInt(k) == << k, 1 >>

RAdd(a, b) == Rat(a[1] * b[2] + b[1] * a[2], a[2] * b[2])

RSub(a, b) == Rat(a[1] * b[2] - b[1] * a[2], a[2] * b[2])

RMul(a, b) == Rat(a[1] * b[1], a[2] * b[2])

\* a / b for b > 0
RDiv(a, b) == Rat(a[1] * b[2], a[2] * b[1])

RLt(a, b) == a[1] * b[2] < b[1] * a[2]

RLe(a, b) == a[1] * b[2] <= b[1] * a[2]

\* math.floor (a)
Floor(a) == a[1] \div a[2]

\* math.ceil (a)
Ceil(a) == 0 - ((0 - a[1]) \div a[2])

RECURSIVE Pow10(_)
Pow10(k) == IF k = 0 THEN 1 ELSE 10 * Pow10(k - 1)

\* 10 ** exponent
TenTo(e) == IF e >= 0 THEN << Pow10(e), 1 >> ELSE << 1, Pow10(0 - e) >>

\* ------------------------------------------------------------ AxisScaler

\* The exact floor (log10 (x)) of x > 0.
ExactExponent(x) ==
    CHOOSE e \in Exponents : RLe(TenTo(e), x) /\ RLt(x, TenTo(e + 1))

\* math.floor (math.log (vrange, 10)) for vrange > 0. The float quotient
\* log (x) / log (10) is exact away from the powers of ten; at a power of ten
\* it may fall just short of the integer (math.log (1000, 10) is
\* 2.9999999999999996), so the floor is the exact exponent or one less.
FloorLog(x) ==
    LET e == ExactExponent(x)
    IN  IF x = TenTo(e) THEN {e, e - 1} ELSE {e}

\* Mutant of NiceNumError: a negative range is told apart from a zero one.
NiceNumErrorTwoKinds(vrange) ==
    IF vrange[1] < 0 THEN "InvalidRangeError"
    ELSE IF vrange[1] = 0 THEN "ValueError"
    ELSE "none"

\* The exception niceNum raises: math.log (vrange, 10) raises ValueError
\* ("math domain error") for vrange <= 0.
NiceNumError(vrange) == IF vrange[1] <= 0 THEN "ValueError" ELSE "none"

\* "fraction = vrange / (10 ** exponent)" is a float quotient. For a negative
\* exponent 10 ** exponent is not a binary fraction, so the quotient may come
\* out an ulp below or above the exact one (5e-06 / 10 ** -6 is
\* 5.000000000000001, 0.3 / 10 ** -1 is 2.9999999999999996); which decades do
\* so depends on the float format of the build. The rounding is modelled by
\* its sign: -1 below the exact quotient, 0 exact, 1 above.
QuotientBiases(exponent) == IF exponent < 0 THEN {0 - 1, 0, 1} ELSE {0}

\* "fraction < t" for the float whose exact value is fraction.
FLt(fraction, bias, t) == RLt(fraction, t) \/ (fraction = t /\ bias < 0)

\* "fraction <= t" for the float whose exact value is fraction.
FLe(fraction, bias, t) == RLt(fraction, t) \/ (fraction = t /\ bias <= 0)

\* Mutant of NiceFraction: the rounding branch switches at the midpoints
\* 1.5, 3.5 and 7.5.
NiceFractionMidpoints(fraction, bias, do_round) ==
    IF do_round
    THEN IF FLt(fraction, bias, << 3, 2 >>) THEN 1
         ELSE IF FLt(fraction, bias, << 7, 2 >>) THEN 2
         ELSE IF FLt(fraction, bias, << 15, 2 >>) THEN 5
         ELSE 10
    ELSE IF FLe(fraction, bias, << 1, 1 >>) THEN 1
         ELSE IF FLe(fraction, bias, << 2, 1 >>) THEN 2
         ELSE IF FLe(fraction, bias, << 5, 1 >>) THEN 5
         ELSE 10

\* niceNum: the choice of niceFraction.
NiceFraction(fraction, bias, do_round) ==
    IF do_round
    THEN IF FLt(fraction, bias, << 3, 2 >>) THEN 1
         ELSE IF FLt(fraction, bias, << 3, 1 >>) THEN 2
         ELSE IF FLt(fraction, bias, << 7, 1 >>) THEN 5
         ELSE 10
    ELSE IF FLe(fraction, bias, << 1, 1 >>) THEN 1
         ELSE IF FLe(fraction, bias, << 2, 1 >>) THEN 2
         ELSE IF FLe(fraction, bias, << 5, 1 >>) THEN 5
         ELSE 10

\* niceNum (vrange, do_round) once the exponent and the rounding of the
\* quotient are known.
NiceNumAt(vrange, exponent, bias, do_round) ==
    LET fraction == RDiv(vrange, TenTo(exponent))
    IN  RMul(RInt(NiceFraction(fraction, bias, do_round)), TenTo(exponent))

\* niceNum (vrange, do_round) for vrange > 0: the values it may return.
NiceNum(vrange, do_round) ==
    {NiceNumAt(vrange, ed[1], ed[2], do_round) :
        ed \in UNION {{<<e, b>> : b \in QuotientBiases(e)} :
                          e \in FloorLog(vrange)}}

\* No AxisScaler object yet.
NoScaler == [made |-> FALSE, min_point |-> None, max_point |-> None,
             max_n_ticks |-> 0, vrange |-> None, tickSpacing |-> None,
             niceMin |-> None, niceMax |-> None]

\* The generators generate_ticks has made: the model keeps two.
TickIters == {"t1", "t2"}

\* No generate_ticks generator yet. `used` is the (min_point, max_point,
\* max_n_ticks) its first next () stored in the scaler, and `dirty` whether
\* the niceMax or tickSpacing it reads changed while it was suspended.
IdleTicks == [pc |-> "idle", min_point |-> None, max_point |-> None,
              max_ticks |-> None, tick_pos |-> None, out |-> << >>,
              used |-> None, dirty |-> FALSE]

\* The record of an AxisScaler call: its name, the exception it raised
\* ("none" when it returned), and for niceNum its arguments and result.
Call(name, err, arg, out) ==
    [name |-> name, err |-> err, arg |-> arg, out |-> out]

\* No Plot object yet.
NoPlot == [made |-> FALSE]

\* No MicroPyDash object yet.
NoDash == [made |-> FALSE]

ScalerInit ==
    /\ scaler = NoScaler
    /\ tickgen = [t \in TickIters |-> IdleTicks]
    /\ call = Call("none", "none", None, None)
    /\ plot = NoPlot
    /\ dash = NoDash

\* A float result: the exact value r it stands for and the sign b of its
\* rounding error (-1 below r, 0 equal to r, 1 above r).
Fl(r, b) == << r[1], r[2], b >>

\* The exact value a float result stands for.
Exact(x) == << x[1], x[2] >>

\* "x <= y" on float results.
FlLe(x, y) == RLt(x, y) \/ (Exact(x) = Exact(y) /\ x[3] <= y[3])

\* The rounding of float arithmetic with the tick spacing ts. A spacing
\* niceFraction * 10 ** exponent that is a whole number or 0.5 is a binary
\* fraction and the arithmetic with it is exact; any other is not (0.1, 0.2,
\* 0.005), and quotients and products with it may come out an ulp below or
\* above the exact ones (0.3 / 0.1 is 2.9999999999999996, 3 * 0.1 is
\* 0.30000000000000004, 280 * 0.005 is 1.4000000000000001).
SpacingBiases(ts) == IF ts[2] \in {1, 2} THEN {0} ELSE {0 - 1, 0, 1}

\* math.floor (q) for the float quotient whose exact value is q.
FloorF(q, b) == IF q[2] = 1 /\ b < 0 THEN q[1] - 1 ELSE Floor(q)

\* math.ceil (q) for the float quotient whose exact value is q.
CeilF(q, b) == IF q[2] = 1 /\ b > 0 THEN q[1] + 1 ELSE Ceil(q)

\* The float product k * ts; 0 * ts is 0.
Product(k, ts, b) == Fl(RMul(RInt(k), ts), IF k = 0 THEN 0 ELSE b)

\* Mutant of TickRatio: the range is divided by the number of ticks.
TickRatioByCount(vr, n) == RDiv(vr, RInt(n))

\* "self.vrange / (self.max_n_ticks - 1)"
TickRatio(vr, n) == RDiv(vr, RInt(n - 1))

\* Mutant of NiceMin: the axis only grows, an earlier and lower niceMin is
\* kept.
NiceMinSticky(min_point, ts, bq, bp) ==
    LET new == Product(FloorF(RDiv(min_point, ts), bq), ts, bp)
    IN  IF scaler.made /\ FlLe(scaler.niceMin, new) THEN scaler.niceMin
        ELSE new

\* "math.floor (self.min_point / self.tickSpacing) * self.tickSpacing"
NiceMin(min_point, ts, bq, bp) ==
    Product(FloorF(RDiv(min_point, ts), bq), ts, bp)

\* "math.ceil (self.max_point / self.tickSpacing) * self.tickSpacing"
NiceMax(max_point, ts, bq, bp) ==
    Product(CeilF(RDiv(max_point, ts), bq), ts, bp)

\* AxisScaler.calculate () on the attributes sc: the outcomes, each the
\* attributes afterwards and the exception raised ("none" when it returns).
Calculate(sc) ==
    LET rng == RSub(sc.max_point, sc.min_point)
    IN  IF NiceNumError(rng) # "none"
        THEN {[sc |-> sc, err |-> NiceNumError(rng)]}
        ELSE UNION {
               LET arg == TickRatio(vr, sc.max_n_ticks)
                   sc1 == [sc EXCEPT !.vrange = vr]
               IN  IF NiceNumError(arg) # "none"
                   THEN {[sc |-> sc1, err |-> NiceNumError(arg)]}
                   ELSE UNION {
                          {[sc |-> [sc1 EXCEPT
                                      !.tickSpacing = ts,
                                      !.niceMin =
                                          NiceMin(sc.min_point, ts, b[1], b[2]),
                                      !.niceMax =
                                          NiceMax(sc.max_point, ts, b[3], b[4])],
                            err |-> "none"]
                           : b \in SpacingBiases(ts) \X SpacingBiases(ts)
                                   \X SpacingBiases(ts) \X SpacingBiases(ts)}
                          : ts \in NiceNum(arg, TRUE)}
               : vr \in NiceNum(rng, FALSE)}

\* A suspended generator reads self.niceMax and self.tickSpacing when it is
\* resumed: g after the scaler's attributes became sc.
Disturb(g, sc) ==
    IF g.pc = "running"
       /\ (sc.niceMax # scaler.niceMax \/ sc.tickSpacing # scaler.tickSpacing)
    THEN [g EXCEPT !.dirty = TRUE]
    ELSE g

\* AxisScaler.__init__ (min_value, max_value, max_ticks). When calculate ()
\* raises, the caller gets no object: `scaler` then holds the attributes
\* __init__ had set, with made = FALSE.
Construct(lo, hi, n) ==
    /\ ~scaler.made
    /\ \E r \in Calculate([NoScaler EXCEPT !.min_point = lo, !.max_point = hi,
                                           !.max_n_ticks = n]) :
           /\ scaler' = [r.sc EXCEPT !.made = (r.err = "none")]
           /\ call' = Call("init", r.err, None, None)
    /\ UNCHANGED <<tickgen, bufallvars>>

\* The max_ticks setter.
SetMaxTicks(n) ==
    /\ scaler.made
    /\ \E r \in Calculate([scaler EXCEPT !.max_n_ticks = n]) :
           /\ scaler' = r.sc
           /\ tickgen' = [t \in TickIters |-> Disturb(tickgen[t], r.sc)]
           /\ call' = Call("max_ticks", r.err, None, None)
    /\ UNCHANGED bufallvars

\* Calling generate_ticks (min_point, max_point, max_ticks): makes a
\* generator object; none of the body runs before the first next ().
TicksCall(t, lo, hi, n) ==
    /\ scaler.made
    /\ tickgen[t].pc \in {"idle", "done", "raised"}
    /\ tickgen' = [tickgen EXCEPT ![t] =
                       [IdleTicks EXCEPT !.pc = "created", !.min_point = lo,
                                         !.max_point = hi, !.max_ticks = n]]
    /\ call' = Call("generate_ticks", "none", None, None)
    /\ UNCHANGED <<scaler, bufallvars>>

\* Mutant of TicksLoop: the loop runs while tick_pos < self.niceMax.
TicksLoopStrict(gen, pos, sc) ==
    IF FlLe(pos, sc.niceMax) /\ pos # sc.niceMax
    THEN [gen EXCEPT !.pc = "running", !.tick_pos = pos,
                     !.out = Append(gen.out, pos)]
    ELSE [gen EXCEPT !.pc = "done", !.tick_pos = pos]

\* "while tick_pos <= self.niceMax: yield tick_pos": the generator after
\* reaching the loop test with tick_pos = pos.
TicksLoop(gen, pos, sc) ==
    IF FlLe(pos, sc.niceMax)
    THEN [gen EXCEPT !.pc = "running", !.tick_pos = pos,
                     !.out = Append(gen.out, pos)]
    ELSE [gen EXCEPT !.pc = "done", !.tick_pos = pos]

\* The first next () on the generator: the parameters are stored, calculate ()
\* runs, and the first tick is yielded.
TicksFirst(t) ==
    /\ tickgen[t].pc = "created"
    /\ LET gen == tickgen[t]
           sc1 == [scaler EXCEPT
                      !.min_point = gen.min_point,
                      !.max_point = gen.max_point,
                      !.max_n_ticks = IF IsNone(gen.max_ticks) THEN @
                                      ELSE Val(gen.max_ticks)]
           gen1 == [gen EXCEPT !.used = << sc1.min_point, sc1.max_point,
                                           sc1.max_n_ticks >>]
       IN  \E r \in Calculate(sc1) :
               /\ scaler' = r.sc
               /\ tickgen' =
                      [u \in TickIters |->
                          IF u # t THEN Disturb(tickgen[u], r.sc)
                          ELSE IF r.err # "none"
                               THEN [gen1 EXCEPT !.pc = "raised"]
                               ELSE TicksLoop(gen1, r.sc.niceMin, r.sc)]
               /\ call' = Call("ticks", r.err, None, None)
    /\ UNCHANGED bufallvars

\* "tick_pos += self.tickSpacing": the float sum, whose rounding error
\* accumulates when the spacing is not a binary fraction.
TickStep(pos, ts, b) ==
    Fl(RAdd(pos, ts), IF ts[2] \in {1, 2} THEN pos[3] ELSE b)

\* A later next (): "tick_pos += self.tickSpacing", then the loop test.
TicksMore(t) ==
    /\ tickgen[t].pc = "running"
    /\ \E b \in SpacingBiases(scaler.tickSpacing) :
           tickgen' = [tickgen EXCEPT ![t] =
                          TicksLoop(tickgen[t],
                                    TickStep(tickgen[t].tick_pos,
                                             scaler.tickSpacing, b),
                                    scaler)]
    /\ call' = Call("tick", "none", None, None)
    /\ UNCHANGED <<scaler, bufallvars>>

\* A direct call niceNum (vrange, do_round).
NiceNumCall(vrange, do_round) ==
    /\ IF NiceNumError(vrange) # "none"
       THEN call' = Call("niceNum", NiceNumError(vrange),
                         <<vrange, do_round>>, None)
       ELSE \E out \in NiceNum(vrange, do_round) :
                call' = Call("niceNum", "none", <<vrange, do_round>>, out)
    /\ UNCHANGED <<scaler, tickgen, bufallvars>>

\* ---------------------------------------------------------- pixel mapping

\* Plot.compute_sizes () for a box of width x height pixels: the axes box
\* and the text sizes.
ComputeSizes(width, height) ==
    LET left == (width * 10) \div 100
        top == (height * 10) \div 100
    IN  [width |-> width, height |-> height,
         abx_left |-> left, abx_top |-> top,
         abx_width |-> ((width - left) * 96) \div 100,
         abx_height |-> height - top - left,
         title_size |-> (height * 7) \div 100,
         ax_label_size |-> (height * 5) \div 100,
         tick_label_size |-> (height * 4) \div 100]

\* What x2pixels and y2pixels read of a plot: its axis ranges, as rationals,
\* and its axes box.
View(sizes, min_x, max_x, min_y, max_y) ==
    [sizes |-> sizes, min_x |-> min_x, max_x |-> max_x,
     min_y |-> min_y, max_y |-> max_y]

\* A rational that a float holds exactly: a small binary fraction.
Binary(r) == r[2] \in {1, 2, 4, 8}

\* The rounding of "(v - lo) * extent / (hi - lo)". With binary fractions
\* the difference and the product are exact and the quotient is the
\* correctly rounded one; with other values (1.8, 4.2) the float result may
\* be an ulp below or above the exact quotient. v = lo gives 0 exactly.
PixelBiases(v, lo, hi) ==
    IF v = lo \/ (Binary(v) /\ Binary(lo) /\ Binary(hi)) THEN {0}
    ELSE {0 - 1, 0, 1}

\* int (q) for the float quotient whose exact value is q and whose rounding
\* error has sign b: truncation towards zero.
Trunc(q, b) ==
    IF q[2] # 1 THEN (IF q[1] >= 0 THEN Floor(q) ELSE Ceil(q))
    ELSE IF q[1] > 0 /\ b < 0 THEN q[1] - 1
    ELSE IF q[1] < 0 /\ b > 0 THEN q[1] + 1
    ELSE q[1]

\* "int ((v - lo) * extent / (hi - lo))": None for the ZeroDivisionError of
\* hi = lo.
Scaled(v, lo, hi, extent, b) ==
    IF hi = lo THEN None
    ELSE Some(Trunc(RDiv(RMul(RSub(v, lo), RInt(extent)), RSub(hi, lo)), b))

\* Plot.x2pixels (x) on view v, with rounding b.
X2Pixels(v, x, b) ==
    LET s == Scaled(x, v.min_x, v.max_x, v.sizes.abx_width, b)
    IN  IF IsNone(s) THEN None ELSE Some(Val(s) + v.sizes.abx_left)

\* Plot.y2pixels (y) on view v, with rounding b.
Y2Pixels(v, y, b) ==
    LET s == Scaled(y, v.min_y, v.max_y, v.sizes.abx_height, b)
    IN  IF IsNone(s) THEN None
        ELSE Some(v.sizes.abx_top + v.sizes.abx_height - Val(s))

\* The calls x2pixels (x1), x2pixels (x2), y2pixels (y1), y2pixels (y2) on a
\* plot seen as view v.
PixelsCall(v, x1, x2, y1, y2) ==
    /\ \E b1 \in PixelBiases(x1, v.min_x, v.max_x),
          b2 \in PixelBiases(x2, v.min_x, v.max_x),
          c1 \in PixelBiases(y1, v.min_y, v.max_y),
          c2 \in PixelBiases(y2, v.min_y, v.max_y) :
           LET out == << X2Pixels(v, x1, b1), X2Pixels(v, x2, b2),
                         Y2Pixels(v, y1, c1), Y2Pixels(v, y2, c2) >>
           IN  call' = Call("pixels",
                            IF \E i \in 1..4 : IsNone(out[i])
                            THEN "ZeroDivisionError" ELSE "none",
                            << v, x1, x2, y1, y2 >>, out)
    /\ UNCHANGED <<scaler, tickgen, bufallvars>>

\* ------------------------------------------------------------------ Plot

\* plot_trace.PlotBuffer (size, 'f'), the buffer a scrolling Plot keeps for X
\* and for each trace. The array holds 32-bit floats; the values put here are
\* small whole numbers, which it holds unchanged. `seen` is history: every
\* value ever put.
NewBuffer(n) ==
    [kind |-> "buffer", size |-> n,
     data |-> IF n > 0 THEN [i \in 0..(n - 1) |-> 0] ELSE << >>,
     index_put |-> 0, index_get |-> 0, count |-> 0,
     max_val |-> None, min_val |-> None, seen |-> {}]

\* No data source: PlotTrace.the_data or Plot.xdata is None.
NoSource == [kind |-> "none"]

\* A static sequence given to set_data.
ListSource(q) == [kind |-> "list", items |-> q]

\* plot_trace.PlotBuffer.put (value)
BufferPut(b, value) ==
    LET b1 == [b EXCEPT !.max_val = NewMax(@, value),
                        !.min_val = NewMin(@, value),
                        !.seen = @ \cup {value}]
    IN  IF NoData(b.data) THEN b1
        ELSE [b1 EXCEPT
                !.data = [@ EXCEPT ![b.index_put] = value],
                !.index_put = (@ + 1) % b.size,
                !.index_get = IF b.count >= b.size THEN (@ + 1) % b.size
                              ELSE @,
                !.count = IF b.count >= b.size THEN @ ELSE @ + 1]

\* plot_trace.PlotBuffer.__iter__, consumed in one go: the live elements,
\* oldest first.
BufferIter(b) ==
    IF NoData(b.data) THEN << >>
    ELSE [i \in 1..b.count |-> b.data[(b.index_get + i - 1) % b.size]]

\* The whole array of a buffer, as min () and max () read it.
ArrayItems(b) == [i \in 1..b.size |-> b.data[i - 1]]

\* "if one_axis": None and the empty list are false, and so is a buffer
\* whose __len__ () is 0.
Truthy(src) ==
    \/ src.kind = "list" /\ Len(src.items) > 0
    \/ src.kind = "buffer" /\ src.count > 0

\* len (source), for a list or a buffer.
SourceLen(src) == IF src.kind = "list" THEN Len(src.items) ELSE src.count

RECURSIVE MinOf(_)
\* min (q) of a non-empty sequence.
MinOf(q) ==
    IF Len(q) = 1 THEN q[1]
    ELSE LET m == MinOf(Tail(q)) IN IF q[1] <= m THEN q[1] ELSE m

RECURSIVE MaxOf(_)
\* max (q) of a non-empty sequence.
MaxOf(q) ==
    IF Len(q) = 1 THEN q[1]
    ELSE LET m == MaxOf(Tail(q)) IN IF q[1] >= m THEN q[1] ELSE m

\* Mutant of FindExtremes: a buffer is always read the all_new way.
FindExtremesAllNew(src, all_new) ==
    IF ~Truthy(src) THEN None
    ELSE IF src.kind = "buffer"
         THEN Some(<< MinOf(ArrayItems(src)), MaxOf(ArrayItems(src)) >>)
         ELSE Some(<< MinOf(src.items), MaxOf(src.items) >>)

\* Plot.find_extremes (one_axis, all_new): None, or <<(min, max)>>.
FindExtremes(src, all_new) ==
    IF ~Truthy(src) THEN None
    ELSE IF src.kind = "buffer"
         THEN IF all_new
              THEN Some(<< MinOf(ArrayItems(src)), MaxOf(ArrayItems(src)) >>)
              ELSE IF ~IsNone(src.max_val) /\ ~IsNone(src.min_val)
                   THEN Some(<< Val(src.min_val), Val(src.max_val) >>)
                   ELSE None
         ELSE Some(<< MinOf(src.items), MaxOf(src.items) >>)

\* PlotTrace.TRACE_COLORS
TRACE_COLORS == << "yellow", "cyan", "red", "green", "#7070FF" >>

\* The colour PlotTrace.__init__ (data, color, ...) gives the trace made when
\* PlotTrace.serial_number is serial_number: the palette's, whatever the
\* argument color is.
TraceColor(serial_number, color) ==
    TRACE_COLORS[(serial_number % Len(TRACE_COLORS)) + 1]

\* The style PlotTrace.__init__ (data, color, lines, markers) records. `asked`
\* and `serial_number` are history: the argument color (None when it was
\* left out) and PlotTrace.serial_number at the time.
PlotTrace(serial_number, color, lines, markers) ==
    [color |-> TraceColor(serial_number, color), asked |-> color,
     serial_number |-> serial_number,
     lines |-> lines, markers |-> markers]

\* The width and height of the plot's box, as in the docstring of Plot and
\* the test of micropydash.py.
PlotBox == << 420, 320 >>

\* Plot.__init__ (..., num_traces, scrolling) with the default axis ranges,
\* autoscale = True and no sender yet, as the first plot of the program
\* (PlotTrace.serial_number starts from 0). `partial` and `rebound` are
\* history: whether add_data was given fewer Y values than there are traces,
\* and whether set_data was called.
NewPlot(scrolling, num_traces) ==
    LET source == IF IsNone(scrolling) THEN NoSource
                  ELSE NewBuffer(Val(scrolling))
    IN  [made |-> TRUE, scrolling |-> scrolling, xdata |-> source,
         traces |-> [i \in 1..num_traces |-> source],
         min_x |-> 0, max_x |-> 100, min_y |-> 0 - 1, max_y |-> 1,
         partial |-> FALSE, rebound |-> FALSE,
         styles |-> [i \in 1..num_traces |->
                        PlotTrace(i - 1, None, FALSE, TRUE)],
         serial_number |-> num_traces,
         autoscale |-> TRUE, sender |-> None,
         sizes |-> ComputeSizes(PlotBox[1], PlotBox[2])]

\* Mutant of Paired: the Y values go to the traces after the first.
PairedFromSecond(ys, i) == IF i >= 2 /\ i - 1 <= Len(ys) THEN Some(ys[i - 1])
                           ELSE None

\* "zip (y_coords, self.traces)": the Y value paired with trace i, if any.
Paired(ys, i) == IF i <= Len(ys) THEN Some(ys[i]) ELSE None

\* Plot.add_data (x_coord, y_coords). A source that is no buffer has no
\* put (): AttributeError, after the puts made before it.
AddData(x, ys) ==
    LET traces == plot.traces
        bad == {i \in DOMAIN traces :
                    ~IsNone(Paired(ys, i)) /\ traces[i].kind # "buffer"}
        stop == IF bad = {} THEN Len(traces) + 1
                ELSE CHOOSE i \in bad : \A j \in bad : i <= j
    IN  /\ plot.made
        /\ IF plot.xdata.kind # "buffer"
           THEN /\ plot' = plot
                /\ call' = Call("add_data", "AttributeError", None, None)
           ELSE /\ plot' =
                     [plot EXCEPT
                        !.xdata = BufferPut(@, x),
                        !.traces =
                            [i \in DOMAIN traces |->
                                IF i < stop /\ ~IsNone(Paired(ys, i))
                                THEN BufferPut(traces[i], Val(Paired(ys, i)))
                                ELSE traces[i]],
                        !.partial = @ \/ Len(ys) < Len(traces)]
                /\ call' = Call("add_data",
                                IF bad = {} THEN "none" ELSE "AttributeError",
                                None, None)
        /\ UNCHANGED <<bufvars, gens, op, ret, histvars, scaler, tickgen, dash>>

\* Plot.set_data (xdata_source, ydata_sources)
SetData(xs, yss) ==
    /\ plot.made
    /\ plot' = [plot EXCEPT
                  !.xdata = ListSource(xs),
                  !.traces = [i \in DOMAIN plot.traces |->
                                 IF i <= Len(yss) THEN ListSource(yss[i])
                                 ELSE plot.traces[i]],
                  !.rebound = TRUE]
    /\ call' = Call("set_data", "none", << xs, yss >>, None)
    /\ UNCHANGED <<bufvars, gens, op, ret, histvars, scaler, tickgen, dash>>

\* The plot p after autoscale_x ().
ScaledX(p) ==
    LET ext == IF Truthy(p.xdata) /\ SourceLen(p.xdata) > 1
               THEN FindExtremes(p.xdata, TRUE)
               ELSE None
    IN  IF IsNone(ext) THEN p
        ELSE [p EXCEPT !.min_x = Val(ext)[1], !.max_x = Val(ext)[2]]

\* Plot.autoscale_x ()
AutoscaleX ==
    /\ plot.made
    /\ plot' = ScaledX(plot)
    /\ call' = Call("autoscale_x", "none", None, None)
    /\ UNCHANGED <<bufvars, gens, op, ret, histvars, scaler, tickgen, dash>>

\* "if min_val is None or temp_min < min_val: min_val = temp_min"
WiderMin(min_v, temp_min) ==
    IF IsNone(min_v) \/ temp_min < Val(min_v) THEN Some(temp_min) ELSE min_v

\* Mutant of WiderMax: the maximum of the last trace is taken.
WiderMaxLast(max_v, temp_max) == Some(temp_max)

\* "if max_val is None or temp_max > max_val: max_val = temp_max"
WiderMax(max_v, temp_max) ==
    IF IsNone(max_v) \/ temp_max > Val(max_v) THEN Some(temp_max) ELSE max_v

RECURSIVE YExtremes(_, _, _)
\* The loop of autoscale_y over the traces i, i + 1, ...: (min_val, max_val)
\* at its end, from acc.
YExtremes(traces, i, acc) ==
    IF i > Len(traces) THEN acc
    ELSE LET extrema == FindExtremes(traces[i], FALSE)
         IN  YExtremes(traces, i + 1,
                       IF IsNone(extrema) THEN acc
                       ELSE << WiderMin(acc[1], Val(extrema)[1]),
                               WiderMax(acc[2], Val(extrema)[2]) >>)

\* autoscale_y () on plot p: the plot afterwards and the exception raised.
\* len (self.xdata) raises TypeError when xdata is None.
ScaledY(p) ==
    IF Len(p.traces) > 0 /\ p.xdata.kind = "none"
    THEN [plot |-> p, err |-> "TypeError"]
    ELSE LET acc == IF Len(p.traces) > 0 /\ SourceLen(p.xdata) > 1
                    THEN YExtremes(p.traces, 1, << None, None >>)
                    ELSE << None, None >>
         IN  [plot |-> IF IsNone(acc[1]) \/ IsNone(acc[2]) THEN p
                       ELSE [p EXCEPT !.min_y = Val(acc[1]),
                                      !.max_y = Val(acc[2])],
              err |-> "none"]

\* Plot.autoscale_y ()
AutoscaleY ==
    /\ plot.made
    /\ plot' = ScaledY(plot).plot
    /\ call' = Call("autoscale_y", ScaledY(plot).err, None, None)
    /\ UNCHANGED <<bufvars, gens, op, ret, histvars, scaler, tickgen, dash>>

\* ---------------------------------------------------------------- drawing

\* The instructions a widget sends: SVG_item.header (), the rectangle of the
\* axes box, draw_text, draw_line, draw_circle and SVG_item.footer ().
Header == [kind |-> "svg"]

Rect == [kind |-> "rect"]

Text(text, x, y) == [kind |-> "text", text |-> text, x |-> x, y |-> y]

Line(x0, y0, x1, y1, color) ==
    [kind |-> "line", x0 |-> x0, y0 |-> y0, x1 |-> x1, y1 |-> y1,
     color |-> color]

Circle(x, y, color) == [kind |-> "circle", x |-> x, y |-> y, color |-> color]

Footer == [kind |-> "end"]

\* SVG_item.send: what reaches the sender of the instructions items, each
\* with the sender it went to. With no sender nothing is sent.
Emit(sender, items) ==
    IF IsNone(sender) THEN << >>
    ELSE [i \in DOMAIN items |-> [to |-> Val(sender), item |-> items[i]]]

\* The default grid_color of Plot.
GridColor == "#505050"

\* "{:g}".format (tick): six significant digits, which drop the rounding
\* error of a tick (0.30000000000000004 is shown as 0.3).
FormatG(tick) == Exact(tick)

\* The view x2pixels and y2pixels have of plot p, whose ranges are whole
\* numbers.
PlotView(p) ==
    View(p.sizes, RInt(p.min_x), RInt(p.max_x), RInt(p.min_y), RInt(p.max_y))

RECURSIVE TickSeqs(_, _, _)
\* The loop of generate_ticks run to its end from tick_pos = pos: the
\* sequences of ticks it can yield after those of acc.
TickSeqs(pos, sc, acc) ==
    IF ~FlLe(pos, sc.niceMax) THEN {acc}
    ELSE UNION {TickSeqs(TickStep(pos, sc.tickSpacing, b), sc,
                         Append(acc, pos))
                : b \in SpacingBiases(sc.tickSpacing)}

\* "for tick in self.ticker.generate_ticks (...)" on the scaler whose
\* parameters were set to those of sc: the scaler afterwards, the exception
\* raised and the ticks yielded.
TicksOf(sc) ==
    UNION {IF r.err # "none"
           THEN {[sc |-> r.sc, err |-> r.err, ticks |-> << >>]}
           ELSE {[sc |-> r.sc, err |-> "none", ticks |-> q]
                 : q \in TickSeqs(r.sc.niceMin, r.sc, << >>)}
           : r \in Calculate(sc)}

\* The grid line and the label draw_grid draws for one tick of axis "x" or
\* "y" on view v, for each rounding of the pixel mapping.
TickItems(v, tick, axis) ==
    LET box == v.sizes
    IN  IF axis = "x"
        THEN {LET pix == Val(X2Pixels(v, Exact(tick), b))
              IN  << Line(pix, box.abx_top + box.abx_height, pix, box.abx_top,
                          GridColor),
                     Text(FormatG(tick), pix,
                          box.abx_top + box.abx_height + box.tick_label_size) >>
              : b \in IF tick[3] = 0
                      THEN PixelBiases(Exact(tick), v.min_x, v.max_x)
                      ELSE {0 - 1, 0, 1}}
        ELSE {LET pix == Val(Y2Pixels(v, Exact(tick), b))
              IN  << Line(box.abx_left, pix, box.abx_left + box.abx_width, pix,
                          GridColor),
                     Text(FormatG(tick), box.abx_left - 2, pix) >>
              : b \in IF tick[3] = 0
                      THEN PixelBiases(Exact(tick), v.min_y, v.max_y)
                      ELSE {0 - 1, 0, 1}}

RECURSIVE GridItems(_, _, _)
\* The instructions of one loop of draw_grid over ticks.
GridItems(v, ticks, axis) ==
    IF ticks = << >> THEN {<< >>}
    ELSE {first \o rest : first \in TickItems(v, Head(ticks), axis),
                          rest \in GridItems(v, Tail(ticks), axis)}

\* Plot.draw_grid () on plot p with ticker sc: the ticker afterwards, the
\* exception raised and the instructions sent before it.
DrawGrid(p, sc) ==
    LET v == PlotView(p)
        scx == [sc EXCEPT !.min_point = v.min_x, !.max_point = v.max_x,
                          !.max_n_ticks = 7]
    IN  UNION {
          IF tx.err # "none"
          THEN {[sc |-> tx.sc, err |-> tx.err, items |-> << >>]}
          ELSE UNION {
                 UNION {
                   IF ty.err # "none"
                   THEN {[sc |-> ty.sc, err |-> ty.err, items |-> xi]}
                   ELSE {[sc |-> ty.sc, err |-> "none", items |-> xi \o yi]
                         : yi \in GridItems(v, ty.ticks, "y")}
                   : ty \in TicksOf([tx.sc EXCEPT !.min_point = v.min_y,
                                                  !.max_point = v.max_y,
                                                  !.max_n_ticks = 5])}
                 : xi \in GridItems(v, tx.ticks, "x")}
          : tx \in TicksOf(scx)}

\* The elements iterating over a bound source yields: a list's, or the live
\* ones of a buffer.
SourceItems(src) == IF src.kind = "list" THEN src.items ELSE BufferIter(src)

\* Mutant of LineDue: a line is drawn to the first point too.
LineDueAlways(prev, style) == style.lines

\* "if x_prev is not None and trace.lines"
LineDue(prev, style) == ~IsNone(prev) /\ style.lines

\* History: the instruction item was sent for point k of trace i.
Tagged(item, i, k) == item @@ [trace |-> i, point |-> k]

RECURSIVE TracePoints(_, _, _, _, _, _, _)
\* The loop of plot_data over the pairs k, k + 1, ... of zip (xs, ys) for
\* trace i of the given style, the point before at pixels prev: the
\* exception raised and the instructions sent before it. The data and the
\* ranges are whole numbers, with which the pixel arithmetic is exact.
TracePoints(v, i, style, xs, ys, k, prev) ==
    IF k > Len(xs) \/ k > Len(ys) THEN [err |-> "none", items |-> << >>]
    ELSE LET x_pixels == X2Pixels(v, RInt(xs[k]), 0)
             y_pixels == Y2Pixels(v, RInt(ys[k]), 0)
         IN  IF IsNone(x_pixels) \/ IsNone(y_pixels)
             THEN [err |-> "ZeroDivisionError", items |-> << >>]
             ELSE LET here == << Val(x_pixels), Val(y_pixels) >>
                      line == IF LineDue(prev, style)
                              THEN << Tagged(
                                        Line(IF IsNone(prev) THEN here[1]
                                             ELSE Val(prev)[1],
                                             IF IsNone(prev) THEN here[2]
                                             ELSE Val(prev)[2],
                                             here[1], here[2], style.color),
                                        i, k) >>
                              ELSE << >>
                      mark == IF style.markers
                              THEN << Tagged(Circle(here[1], here[2],
                                                    style.color), i, k) >>
                              ELSE << >>
                      rest == TracePoints(v, i, style, xs, ys, k + 1,
                                          Some(here))
                  IN  [err |-> rest.err,
                       items |-> line \o mark \o rest.items]

RECURSIVE PlotData(_, _)
\* Plot.plot_data () from trace i on: the exception raised and the
\* instructions sent before it. zip () of a source that is None raises
\* TypeError.
PlotData(p, i) ==
    IF i > Len(p.traces) THEN [err |-> "none", items |-> << >>]
    ELSE IF p.xdata.kind = "none" \/ p.traces[i].kind = "none"
    THEN [err |-> "TypeError", items |-> << >>]
    ELSE LET trace == TracePoints(PlotView(p), i, p.styles[i],
                                  SourceItems(p.xdata),
                                  SourceItems(p.traces[i]), 1, None)
             rest == PlotData(p, i + 1)
         IN  IF trace.err # "none" THEN trace
             ELSE [err |-> rest.err, items |-> trace.items \o rest.items]

\* Mutant of Rescaled: the axes are autoscaled whatever the flag says.
RescaledAlways(p) == ScaledY(ScaledX(p))

\* "if self.autoscale: self.autoscale_x (); self.autoscale_y ()": the plot
\* afterwards and the exception raised.
Rescaled(p) ==
    IF p.autoscale THEN ScaledY(ScaledX(p)) ELSE [plot |-> p, err |-> "none"]

\* The title and the axis labels draw () draws, with their default texts.
Labels(box) ==
    << Text("Plot", box.width \div 2, (box.title_size * 10) \div 9),
       Text("Time", box.width \div 2, box.height - 2),
       Text("Something", 1, box.height \div 2) >>

\* Plot.draw () on plot p with ticker sc: the plot and the ticker afterwards,
\* the exception raised and the instructions sent before it.
DrawRuns(p, sc) ==
    LET a == Rescaled(p)
        head == << Header, Rect >> \o Labels(p.sizes)
    IN  IF a.err # "none"
        THEN {[plot |-> a.plot, sc |-> sc, err |-> a.err, items |-> << >>]}
        ELSE {IF g.err # "none"
              THEN [plot |-> a.plot, sc |-> g.sc, err |-> g.err,
                    items |-> head \o g.items]
              ELSE LET d == PlotData(a.plot, 1)
                   IN  [plot |-> a.plot, sc |-> g.sc, err |-> d.err,
                        items |-> head \o g.items \o d.items
                                  \o (IF d.err = "none" THEN << Footer >>
                                      ELSE << >>)]
              : g \in DrawGrid(a.plot, sc)}

\* Plot.draw ()
Draw ==
    /\ plot.made
    /\ \E r \in DrawRuns(plot, scaler) :
           /\ plot' = r.plot
           /\ scaler' = r.sc
           /\ call' = Call("draw", r.err, None, Emit(plot.sender, r.items))
    /\ UNCHANGED <<bufvars, gens, op, ret, histvars, tickgen, dash>>

\* "self.traces[i] = plot_trace.PlotTrace (self.traces[i].data, color, lines,
\* markers)": the user gives trace i a style of its own.
NewTrace(i, color, lines, markers) ==
    /\ plot.made
    /\ i \in DOMAIN plot.traces
    /\ plot' = [plot EXCEPT
                  !.styles[i] = PlotTrace(plot.serial_number, color, lines,
                                          markers),
                  !.serial_number = @ + 1]
    /\ call' = Call("PlotTrace", "none", << i, color >>, None)
    /\ UNCHANGED <<bufvars, gens, op, ret, histvars, scaler, tickgen, dash>>

\* "self.min_x, self.max_x, self.min_y, self.max_y = r": the user sets the
\* axis ranges.
SetRanges(r) ==
    /\ plot.made
    /\ plot' = [plot EXCEPT !.min_x = r[1], !.max_x = r[2],
                            !.min_y = r[3], !.max_y = r[4]]
    /\ call' = Call("set_ranges", "none", r, None)
    /\ UNCHANGED <<bufvars, gens, op, ret, histvars, scaler, tickgen, dash>>

\* -------------------------------------------------------------- dashboard

\* The widget objects a page is made of, and the class of each: one Meter
\* (an SVG_item), one LineBreak and two Buttons, all constructed before the
\* dashboard is used.
Widgets == {"meter", "break", "go", "stop"}

Kind(w) == IF w = "meter" THEN "svg"
           ELSE IF w = "break" THEN "break" ELSE "button"

\* The values a sender attribute can hold: None ("none") or a callable.
Senders == {"none", "s1", "s2"}

\* MicroPyDash.__init__ (sender): "self.send = sender", "self.widgets = []".
\* attr is the instance attribute "sender" of every widget: None for an
\* SVG_item and a LineBreak, whose __init__ sets it, and absent ("unset") in
\* a Button, whose __init__ does not. class_sender is the class attribute
\* Button.sender: the class body binds the name to None and then rebinds it
\* to the property of the same name ("property").
NewDash(sender) ==
    [made |-> TRUE, send |-> sender, widgets |-> << >>,
     attr |-> [w \in Widgets |->
                  IF Kind(w) = "button" THEN "unset" ELSE "none"],
     class_sender |-> "property"]

\* "widget.sender = s". On a Button whose class still holds the property,
\* the setter runs "Button.sender = new_sender", which replaces the property
\* by the value; once the class attribute is a plain value, the statement
\* makes an instance attribute, as it does on every other widget.
SetAttr(d, w, s) ==
    IF Kind(w) = "button" /\ d.class_sender = "property"
    THEN [d EXCEPT !.class_sender = s]
    ELSE [d EXCEPT !.attr[w] = s]

\* What "widget.sender" evaluates to: the property's getter returns
\* Button.sender, which is the property itself; otherwise the instance
\* attribute if there is one, else the class attribute.
ReadSender(d, w) ==
    IF Kind(w) # "button" THEN d.attr[w]
    ELSE IF d.class_sender = "property" THEN "property"
    ELSE IF d.attr[w] # "unset" THEN d.attr[w]
    ELSE d.class_sender

\* The object a widget's send () calls: "self.sender" in SVG_item.send and
\* LineBreak.draw, "Button.sender" in Button.send.
UsedSender(d, w) ==
    IF Kind(w) = "button" THEN d.class_sender ELSE d.attr[w]

\* What one widget writes, as one instruction: the <svg> element of a
\* Meter, "<br>", or the <a> element of a Button.
WidgetItem(w) == [kind |-> Kind(w), widget |-> w]

\* widget.draw (): nothing is written when the sender in use is None;
\* calling the property object is a TypeError.
WidgetDraw(d, w) ==
    LET s == UsedSender(d, w) IN
    IF s = "property" THEN [err |-> "TypeError", out |-> << >>]
    ELSE IF s = "none" THEN [err |-> "none", out |-> << >>]
    ELSE [err |-> "none", out |-> << [to |-> s, item |-> WidgetItem(w)] >>]

\* MicroPyDash.header: the <head> with the button style block, which is
\* sent when any Button has been constructed, and the title.
PageHeader == [kind |-> "header", style |-> TRUE]

\* MicroPyDash.footer.
PageFooter == [kind |-> "footer"]

\* "for widget in self.widgets: widget.draw ()" from the k-th widget on:
\* the loop ends at the first exception.
RECURSIVE DrawWidgets(_, _)
DrawWidgets(d, k) ==
    IF k > Len(d.widgets) THEN [err |-> "none", out |-> << >>]
    ELSE LET r == WidgetDraw(d, d.widgets[k]) IN
         IF r.err # "none" THEN r
         ELSE LET rest == DrawWidgets(d, k + 1) IN
              [err |-> rest.err, out |-> r.out \o rest.out]

\* MicroPyDash.add_widget (new_widget). Each widget is added once.
AddWidget(w) ==
    /\ dash.made
    /\ \A k \in 1..Len(dash.widgets) : dash.widgets[k] # w
    /\ dash' = SetAttr([dash EXCEPT !.widgets = Append(@, w)],
                       w, dash.send)
    /\ call' = Call("add_widget", "none", w, None)
    /\ UNCHANGED <<bufvars, gens, op, ret, histvars, nops, scaler, tickgen,
                   plot>>

\* "for widget in self.widgets: widget.sender = new_sender" from the k-th
\* widget on.
RECURSIVE SetAll(_, _, _)
SetAll(d, k, s) ==
    IF k > Len(d.widgets) THEN d
    ELSE SetAll(SetAttr(d, d.widgets[k], s), k + 1, s)

\* MicroPyDash.set_sender (new_sender).
SetSender(s) ==
    /\ dash.made
    /\ dash' = SetAll([dash EXCEPT !.send = s], 1, s)
    /\ call' = Call("set_sender", "none", s, None)
    /\ UNCHANGED <<bufvars, gens, op, ret, histvars, nops, scaler, tickgen,
                   plot>>

\* MicroPyDash.draw: header (), the widgets, footer (). "self.send (...)"
\* with self.send None is a TypeError before anything is written.
DashDrawRun(d) ==
    IF d.send = "none" THEN [err |-> "TypeError", out |-> << >>]
    ELSE LET head == << [to |-> d.send, item |-> PageHeader] >>
             r == DrawWidgets(d, 1) IN
         IF r.err # "none" THEN [err |-> r.err, out |-> head \o r.out]
         ELSE [err |-> "none",
               out |-> head \o r.out
                         \o << [to |-> d.send, item |-> PageFooter] >>]

DashDraw ==
    /\ dash.made
    /\ call' = Call("MicroPyDash.draw", DashDrawRun(dash).err, None,
                    DashDrawRun(dash).out)
    /\ UNCHANGED <<bufvars, gens, op, ret, histvars, nops, scaler, tickgen,
                   plot, dash>>

\* ------------------------------------------------------- specifications

\* A buffer of any capacity 0..MaxSize under put and get.
InitBuf == (\E n \in 0..MaxSize : BufferInit(n)) /\ ScalerInit

NextBuf ==
    \/ \E v \in Values : Put(v) /\ UNCHANGED <<nops, scvars>>
    \/ Get /\ UNCHANGED <<nops, scvars>>

SpecBuf == InitBuf /\ [][NextBuf]_vars

\* A buffer with two generators consumed while put and get go on.
InitIter == (\E n \in 0..MaxIterSize : BufferInit(n)) /\ ScalerInit

NextIter ==
    \/ \E v \in Values :
           nops < MaxOps /\ Put(v) /\ nops' = nops + 1 /\ UNCHANGED scvars
    \/ nops < MaxOps /\ Get /\ nops' = nops + 1 /\ UNCHANGED scvars
    \/ \E g \in Iters : GenCall(g) /\ UNCHANGED scvars
    \/ \E g \in Iters : GenNext(g) /\ UNCHANGED scvars

SpecIter == InitIter /\ [][NextIter]_vars

\* niceNum applied to the ranges n/d.
Ranges == {Rat(n, d) : n \in (0 - 1)..MaxNum, d \in Dens}

InitNice == BufferInit(0) /\ ScalerInit

NextNice == \E v \in Ranges, r \in BOOLEAN : NiceNumCall(v, r)

SpecNice == InitNice /\ [][NextNice]_vars

\* One AxisScaler, constructed, updated and asked for ticks.
\* The end points min_value / max_value it is given: -1, 1 and 2. Their tick
\* spacings are 1/2, 1, 2 and 5, with which float arithmetic is exact.
ScalerPoints == {Rat(0 - 1, 1), Rat(1, 1), Rat(2, 1)}

\* The tick counts it is given.
TickCounts == {2, 3}

\* The ranges niceNum is called with directly: -1/2, 0 and 3/2.
ScalerRanges == {Rat(0 - 1, 2), Rat(0, 1), Rat(3, 2)}

InitScaler == BufferInit(0) /\ ScalerInit

NextScaler ==
    \/ \E lo \in ScalerPoints, hi \in ScalerPoints, n \in TickCounts :
           Construct(lo, hi, n)
    \/ \E n \in TickCounts : SetMaxTicks(n)
    \/ \E lo \in ScalerPoints, hi \in ScalerPoints,
          n \in {None} \cup {Some(k) : k \in TickCounts} :
           TicksCall("t1", lo, hi, n)
    \/ TicksFirst("t1")
    \/ TicksMore("t1")
    \/ \E v \in ScalerRanges, r \in BOOLEAN : NiceNumCall(v, r)

SpecScaler == InitScaler /\ [][NextScaler]_vars

\* One AxisScaler made from, and asked for the ticks of, the axes
\* (min_value, max_value, max_ticks) below: the first and the fourth are
\* test_scaler's, the last is not valid (a zero range).
TickCases ==
    {<< Rat(0, 1), Rat(9, 2), 4 >>,
     << Rat(3, 2), Rat(13, 2), 3 >>,
     << Rat(7, 5), Rat(1411, 1000), 4 >>,
     << Rat(0 - 20, 1), Rat(0 - 10, 1), 5 >>,
     << Rat(0 - 9, 50), Rat(0 - 79, 500), 6 >>,
     << Rat(1, 1), Rat(1, 1), 2 >>}

InitTicks == BufferInit(0) /\ ScalerInit

NextTicks ==
    \/ \E c \in TickCases : Construct(c[1], c[2], c[3])
    \/ \E c \in TickCases :
           \E n \in {None, Some(c[3])} : TicksCall("t1", c[1], c[2], n)
    \/ TicksFirst("t1")
    \/ TicksMore("t1")

SpecTicks == InitTicks /\ [][NextTicks]_vars


\* One AxisScaler and two generate_ticks calls, consumed in any order while
\* max_ticks is assigned. The axes are 0 .. 4.5 and 2 .. 4.5 with 2 or 4 ticks:
\* their spacings are 2 and 5, with which float arithmetic is exact.
TwoAxes == {<< Rat(0, 1), Rat(9, 2) >>, << Rat(2, 1), Rat(9, 2) >>}

TwoCounts == {2, 4}

InitTwo == BufferInit(0) /\ ScalerInit

NextTwo ==
    \/ \E a \in TwoAxes, n \in TwoCounts : Construct(a[1], a[2], n)
    \/ \E n \in TwoCounts : SetMaxTicks(n)
    \/ \E t \in TickIters, a \in TwoAxes,
          n \in {None} \cup {Some(k) : k \in TwoCounts} :
           /\ tickgen[t].pc = "idle"
           /\ t = "t2" => tickgen["t1"].pc # "idle"
           /\ TicksCall(t, a[1], a[2], n)
    \/ \E t \in TickIters : TicksFirst(t)
    \/ \E t \in TickIters : TicksMore(t)

SpecTwo == InitTwo /\ [][NextTwo]_vars

\* One Plot, static or scrolling, given data and autoscaled.
\* The buffer sizes it is made with (None: a static plot).
Scrollings == {None, Some(0), Some(2), Some(3)}

\* The numbers of traces it is made with.
TraceCounts == {1, 2}

\* The X coordinates given to add_data.
PlotXs == {1, 2}

\* The Y coordinates given to add_data, one or two at a time.
YValues == {0 - 1, 2}

YLists == {<< a >> : a \in YValues} \cup (YValues \X YValues)

\* The sequences given to set_data.
StaticXs == {<< >>, << 1, 2 >>, << 0, 1, 2 >>}

StaticYs == {<< << 1, 2 >> >>,
             << << 1, 2, 3 >>, << 4, 5 >> >>,
             << << 2, 0 - 1 >>, << >> >>}

\* Plot.__init__: the buffers, and the ticker AxisScaler (min_x, max_x, 5).
InitPlot ==
    /\ BufferInit(0)
    /\ \E s \in Scrollings, n \in TraceCounts : plot = NewPlot(s, n)
    /\ \E r \in Calculate([NoScaler EXCEPT !.min_point = RInt(0),
                                           !.max_point = RInt(100),
                                           !.max_n_ticks = 5]) :
           scaler = [r.sc EXCEPT !.made = (r.err = "none")]
    /\ tickgen = [t \in TickIters |-> IdleTicks]
    /\ call = Call("init", "none", None, None)
    /\ dash = NoDash

NextPlot ==
    /\ nops < MaxPlotOps
    /\ nops' = nops + 1
    /\ \/ \E x \in PlotXs, ys \in YLists : AddData(x, ys)
       \/ \E xs \in StaticXs, yss \in StaticYs : SetData(xs, yss)
       \/ AutoscaleX
       \/ AutoscaleY

SpecPlot == InitPlot /\ [][NextPlot]_vars

\* x2pixels and y2pixels applied to points of the axes below, in the box of
\* 420 x 320 pixels of the docstring of Plot and the test of micropydash.py.
BoxSizes == {<< 420, 320 >>}

\* The X ranges (min_x, max_x): the default one of Plot, one whose upper end
\* is no binary fraction, -2 .. -1.8, and a degenerate one.
XAxes ==
    {<< Rat(0, 1), Rat(100, 1) >>, << Rat(0 - 2, 1), Rat(0 - 9, 5) >>,
     << Rat(1, 1), Rat(1, 1) >>}

\* The Y ranges (min_y, max_y): the default one, 4.1 .. 4.2 and a degenerate
\* one.
YAxes ==
    {<< Rat(0 - 1, 1), Rat(1, 1) >>, << Rat(41, 10), Rat(21, 5) >>,
     << Rat(1, 1), Rat(1, 1) >>}

\* The points mapped on the axis a: its ends, its middle and its first
\* quarter.
AxisPoints(a) ==
    {a[1], a[2], RDiv(RAdd(a[1], a[2]), RInt(2)),
     RDiv(RAdd(RMul(RInt(3), a[1]), a[2]), RInt(4))}

InitPixels == BufferInit(0) /\ ScalerInit

\* One set of calls on a new plot.
NextPixels ==
    /\ call.name = "none"
    /\ \E box \in BoxSizes, ax \in XAxes, ay \in YAxes :
           \E x1 \in AxisPoints(ax), x2 \in AxisPoints(ax),
              y1 \in AxisPoints(ay), y2 \in AxisPoints(ay) :
               PixelsCall(View(ComputeSizes(box[1], box[2]),
                               ax[1], ax[2], ay[1], ay[2]), x1, x2, y1, y2)

SpecPixels == InitPixels /\ [][NextPixels]_vars

\* One Plot with a sender, static or scrolling, styled, given data and ranges
\* and drawn. The data and the ranges are chosen so that the tick spacings
\* are 0.5, 1 or 20, with which float arithmetic is exact.
DrawScrollings == {None, Some(2)}

\* The X coordinates given to add_data.
DrawXs == {0, 2}

\* The Y coordinates given to add_data.
DrawYLists == {<< 0 - 1 >>, << 2 >>, << 0 - 1, 2 >>, << 2, 2 >>}

\* The sequences given to set_data: in the second pair of Y sequences the
\* first is longer than either X sequence.
DrawStaticXs == {<< 0, 2 >>, << 0, 1, 2 >>}

DrawStaticYs == {<< << 0 - 1, 2 >> >>,
                 << << 0, 2, 4 >>, << 2, 0 - 1 >> >>}

\* The styles (color, lines, markers) traces are given.
TraceStyles == {<< Some("red"), TRUE, TRUE >>, << None, TRUE, FALSE >>,
                << Some("cyan"), FALSE, TRUE >>}

\* The ranges (min_x, max_x, min_y, max_y) the user sets: the second has no
\* X range and the third no Y range.
UserRanges == {<< 0, 4, 0 - 2, 2 >>, << 1, 1, 0 - 1, 1 >>, << 0, 2, 2, 2 >>}

\* Plot.__init__ with autoscale on or off, and the sender a dashboard gives
\* the plot in add_widget.
InitDraw ==
    /\ BufferInit(0)
    /\ \E s \in DrawScrollings, n \in TraceCounts, a \in BOOLEAN :
           plot = [NewPlot(s, n) EXCEPT !.autoscale = a,
                                        !.sender = Some("s1")]
    /\ \E r \in Calculate([NoScaler EXCEPT !.min_point = RInt(0),
                                           !.max_point = RInt(100),
                                           !.max_n_ticks = 5]) :
           scaler = [r.sc EXCEPT !.made = (r.err = "none")]
    /\ tickgen = [t \in TickIters |-> IdleTicks]
    /\ call = Call("init", "none", None, None)
    /\ dash = NoDash

NextDraw ==
    /\ nops < MaxDrawOps
    /\ nops' = nops + 1
    /\ \/ \E x \in DrawXs, ys \in DrawYLists : AddData(x, ys)
       \/ \E xs \in DrawStaticXs, yss \in DrawStaticYs : SetData(xs, yss)
       \/ \E i \in TraceCounts, st \in TraceStyles :
              NewTrace(i, st[1], st[2], st[3])
       \/ \E r \in UserRanges : SetRanges(r)
       \/ AutoscaleX
       \/ AutoscaleY
       \/ Draw

SpecDraw == InitDraw /\ [][NextDraw]_vars

\* A dashboard made with no sender or with one, under add_widget,
\* set_sender and draw.
InitDash ==
    /\ BufferInit(0)
    /\ scaler = NoScaler
    /\ tickgen = [t \in TickIters |-> IdleTicks]
    /\ call = Call("init", "none", None, None)
    /\ plot = NoPlot
    /\ \E s \in {"none", "s1"} : dash = NewDash(s)

NextDash ==
    \/ \E w \in Widgets : AddWidget(w)
    \/ \E s \in Senders : SetSender(s)
    \/ DashDraw

SpecDash == InitDash /\ [][NextDash]_vars

\* ------------------------------------------------------ claims: PlotBuffer

SetMin(S) == CHOOSE x \in S : \A y \in S : x <= y

SetMax(S) == CHOOSE x \in S : \A y \in S : x >= y

\* The members of a sequence.
Range(q) == {q[i] : i \in DOMAIN q}

C2_RefinesBoundedQueue == size > 0 => Points = queue

\* C2 witness: more values were put than fit, the write pointer wrapped, and
\* the last `size` values are what is read, oldest first.
C2_Witness ==
    /\ size >= 2 /\ count = size
    /\ op = "put" /\ index_get # 0
    /\ Cardinality(inserted) > 1
    /\ Points = queue
    /\ Points[1] # Points[size]

\* C3: in every reachable state 0 <= count <= capacity, and len () is the
\* number of live items.
C3_CountWithinCapacity ==
    /\ 0 <= count /\ count <= size
    /\ BufLen = count
    /\ BufLen = Len(queue)

\* C3 witness: a put into a full buffer has left the count at the capacity.
C3_Witness == size > 0 /\ count = size /\ op = "put" /\ index_get # 0

\* C4: get () on a buffer with no live item returns None and changes nothing;
\* otherwise it returns the oldest live item and the count drops by one.
C4_GetEmptyOrOldest ==
    [][op' = "get" =>
         IF count = 0
         THEN ret' = None /\ UNCHANGED bufvars
         ELSE /\ ret' = Some(Head(queue))
              /\ count' = count - 1]_vars

\* C4 witness: a get () has drained a buffer that had wrapped around, and the
\* next get () answered None.
C4_Witness ==
    /\ size > 0 /\ op = "get" /\ ret = None /\ count = 0
    /\ index_get # 0 /\ inserted # {}

\* C5: making and consuming a generator (the steps that are no put or get,
\* which count in nops) changes nothing of the buffer; a generator consumed
\* with no put or get since it was made has yielded len () items, and two
\* such generators have yielded the same.
C5_IterateIsPure ==
    /\ [][(nops' = nops /\ gens' # gens) => UNCHANGED bufvars]_vars
    /\ [](\A g \in Iters :
             (gens[g].pc = "done" /\ ~gens[g].dirty) =>
                 /\ Len(gens[g].out) = BufLen
                 /\ \A h \in Iters :
                        (gens[h].pc = "done" /\ ~gens[h].dirty) =>
                            gens[h].out = gens[g].out)

\* C5 witness: two generators were consumed to the end over a wrapped-around
\* buffer with nothing in between.
C5_Witness ==
    /\ \A g \in Iters : gens[g].pc = "done" /\ ~gens[g].dirty
    /\ Len(gens["g1"].out) = 2 /\ index_get = 1
    /\ gens["g1"].out[1] # gens["g1"].out[2]

\* C6 as claimed: a consumed generator has yielded exactly the items that
\* were live when it was made, whatever put or get came in between.
C6_SnapshotAlways ==
    \A g \in Iters : gens[g].pc = "done" => gens[g].out = gens[g].snap

\* C6 amended: a generator consumed with no put or get since it was made has
\* yielded exactly the items live when it was made, however the consumption
\* of the other generator was interleaved with its own.
C6_SnapshotIfUntouched ==
    \A g \in Iters :
        (gens[g].pc = "done" /\ ~gens[g].dirty) => gens[g].out = gens[g].snap

\* C6 witness: one generator is consumed while the other is half-way through
\* the same wrapped-around buffer.
C6_Witness ==
    /\ gens["g2"].pc = "done" /\ ~gens["g2"].dirty
    /\ Len(gens["g2"].out) = 2 /\ index_get = 1
    /\ gens["g1"].pc = "running" /\ Len(gens["g1"].out) = 1

\* C7: a buffer of capacity 0 yields nothing, has length 0, answers None to
\* get (), and its extent is (min, max) over every value ever put.
C7_ZeroCapacity ==
    size = 0 =>
        /\ Points = << >>
        /\ BufLen = 0
        /\ op = "get" => ret = None
        /\ CurrentExtent = IF inserted = {} THEN None
                           ELSE <<SetMin(inserted), SetMax(inserted)>>

\* C7 witness: a get () on a capacity-0 buffer after several values were put.
C7_Witness ==
    /\ size = 0 /\ op = "get" /\ ret = None
    /\ Cardinality(inserted) >= 2
    /\ CurrentExtent = <<SetMin(inserted), SetMax(inserted)>>

\* ------------------------------------------------------ claims: AxisScaler

\* The spec's DomainError is the ValueError ("math domain error") math.log raises.
DomainError == "ValueError"

\* The calls that run calculate (): construction and the two updates.
UpdateCalls == {"init", "max_ticks", "ticks"}

Candidates(v) ==
    {RMul(RInt(d), TenTo(ExactExponent(v))) : d \in {1, 2, 5, 10}}

\* |a - b|
Dist(a, b) == LET x == RSub(a, b) IN << Abs(x[1]), x[2] >>

\* v / 10^floor (log10 (v))
Mantissa(v) == RDiv(v, TenTo(ExactExponent(v)))

\* C9 as claimed: for a range v > 0, niceNum in ceiling mode returns the
\* smallest member of {1, 2, 5, 10} x 10^floor (log10 (v)) that is >= v.
C9_CeilingIsLeastCover ==
    (call.name = "niceNum" /\ ~call.arg[2] /\ RLt(RInt(0), call.arg[1])) =>
        /\ call.err = "none"
        /\ call.out \in Candidates(call.arg[1])
        /\ RLe(call.arg[1], call.out)
        /\ \A c \in Candidates(call.arg[1]) :
               RLe(call.arg[1], c) => RLe(call.out, c)

\* C10 as claimed: for a range v > 0, niceNum in rounding mode returns the
\* member of {1, 2, 5, 10} x 10^floor (log10 (v)) nearest to v.
C10_RoundingIsNearest ==
    (call.name = "niceNum" /\ call.arg[2] /\ RLt(RInt(0), call.arg[1])) =>
        /\ call.err = "none"
        /\ call.out \in Candidates(call.arg[1])
        /\ \A c \in Candidates(call.arg[1]) :
               RLe(Dist(call.out, call.arg[1]), Dist(c, call.arg[1]))

\* C10 amended: the result is the nearest member except for a mantissa
\* strictly between 3 and 3.5, where it is 5 x 10^e, and strictly between 7
\* and 7.5, where it is 10 x 10^e; at a mantissa of exactly 3 (or 7) it is
\* 5 x 10^e (or 10 x 10^e) too, unless the exponent is negative, when the
\* rounding of the float quotient may also give 2 x 10^e (or 5 x 10^e).
C10_RoundingByThresholds ==
    (call.name = "niceNum" /\ call.arg[2] /\ RLt(RInt(0), call.arg[1])) =>
        LET v == call.arg[1]
            m == Mantissa(v)
            e == ExactExponent(v)
            D(d) == RMul(RInt(d), TenTo(e))
        IN  /\ call.err = "none"
            /\ call.out \in Candidates(v)
            /\ IF RLt(RInt(3), m) /\ RLt(m, << 7, 2 >>) THEN call.out = D(5)
               ELSE IF RLt(RInt(7), m) /\ RLt(m, << 15, 2 >>)
               THEN call.out = D(10)
               ELSE IF m = RInt(3)
               THEN call.out \in (IF e < 0 THEN {D(2), D(5)} ELSE {D(5)})
               ELSE IF m = RInt(7)
               THEN call.out \in (IF e < 0 THEN {D(5), D(10)} ELSE {D(10)})
               ELSE \A c \in Candidates(v) :
                        RLe(Dist(call.out, v), Dist(c, v))

\* C10 witness: niceNum (3.25, True) has returned 5, though 2 is nearer.
C10_Witness ==
    /\ call.name = "niceNum" /\ call.err = "none"
    /\ call.arg = << Rat(13, 4), TRUE >>
    /\ call.out = RInt(5)

\* ------------------------------------------------- claims: tick placement

\* The parameters are valid: min_value < max_value and max_ticks >= 2.
ValidAxis(lo, hi, n) == RLt(lo, hi) /\ n >= 2

\* The float result x is exactly a whole multiple of ts.
IsMultiple(x, ts) == x[3] = 0 /\ RDiv(x, ts)[2] = 1

\* The generator g has been consumed to its end, and nothing changed the
\* scaler meanwhile.
Consumed(g) == g.pc = "done" /\ ~g.dirty

\* C11: for valid parameters, after calculate () niceMin and niceMax are
\* exact whole multiples of tickSpacing, niceMin <= min_point and
\* niceMax >= max_point.
C11_NiceBounds ==
    (scaler.made
     /\ ValidAxis(scaler.min_point, scaler.max_point, scaler.max_n_ticks)) =>
        /\ IsMultiple(scaler.niceMin, scaler.tickSpacing)
        /\ IsMultiple(scaler.niceMax, scaler.tickSpacing)
        /\ FlLe(scaler.niceMin, Fl(scaler.min_point, 0))
        /\ FlLe(Fl(scaler.max_point, 0), scaler.niceMax)

\* C12: for valid parameters, generate_ticks yields at most max_ticks + 1
\* ticks.
C12_TickCountBound ==
    \A t \in TickIters :
        (Consumed(tickgen[t])
         /\ ValidAxis(tickgen[t].used[1], tickgen[t].used[2],
                      tickgen[t].used[3])) =>
            Len(tickgen[t].out) <= tickgen[t].used[3] + 1

\* test_scaler (0.0, 4.5, max_ticks=4)
Example == << Rat(0, 1), Rat(9, 2), 4 >>

\* The scaler holds the parameters p.
Holds(p) ==
    /\ scaler.made
    /\ << scaler.min_point, scaler.max_point, scaler.max_n_ticks >> = p

\* The whole numbers q[1], q[2], ... as exact float results.
Whole(q) == [i \in DOMAIN q |-> Fl(RInt(q[i]), 0)]

\* C13 as claimed: min 0, max 4.5 and 4 ticks give the step 1, niceMin 0,
\* niceMax 5 and the ticks 0, 1, 2, 3, 4, 5.
C13_ExampleAsClaimed ==
    /\ Holds(Example) =>
           /\ scaler.tickSpacing = RInt(1)
           /\ scaler.niceMin = Fl(RInt(0), 0)
           /\ scaler.niceMax = Fl(RInt(5), 0)
    /\ \A t \in TickIters :
           (Consumed(tickgen[t]) /\ tickgen[t].used = Example) =>
               tickgen[t].out = Whole(<< 0, 1, 2, 3, 4, 5 >>)

\* C13 amended: min 0, max 4.5 and 4 ticks give the step 2, niceMin 0,
\* niceMax 6 and the ticks 0, 2, 4, 6.
C13_ExampleTicks ==
    /\ Holds(Example) =>
           /\ scaler.tickSpacing = RInt(2)
           /\ scaler.niceMin = Fl(RInt(0), 0)
           /\ scaler.niceMax = Fl(RInt(6), 0)
    /\ \A t \in TickIters :
           (Consumed(tickgen[t]) /\ tickgen[t].used = Example) =>
               tickgen[t].out = Whole(<< 0, 2, 4, 6 >>)

\* C13 witness: as test_scaler does, the scaler was made for 0 .. 4.5 with 4
\* ticks and generate_ticks (0, 4.5) has been consumed.
C13_Witness ==
    /\ Holds(Example)
    /\ Consumed(tickgen["t1"]) /\ tickgen["t1"].used = Example
    /\ IsNone(tickgen["t1"].max_ticks)

\* The ticks of g start at niceMin, their exact values go up by tickSpacing,
\* none is above niceMax, and at most the tick at niceMax is missing.
TicksInSteps(g) ==
    LET out == g.out
        ts == scaler.tickSpacing
    IN  /\ Len(out) >= 1
        /\ out[1] = scaler.niceMin
        /\ \A i \in 1..(Len(out) - 1) : Exact(out[i + 1]) = RAdd(out[i], ts)
        /\ \A i \in 1..Len(out) : FlLe(out[i], scaler.niceMax)
        /\ RLe(RSub(scaler.niceMax, ts), out[Len(out)])

\* No float result of the run of g was rounded.
NoRounding(g) ==
    /\ scaler.niceMax[3] = 0
    /\ \A i \in 1..Len(g.out) : g.out[i][3] = 0
    /\ g.tick_pos[3] = 0

\* C14 as claimed: the ticks start at niceMin, consecutive ticks differ by
\* exactly tickSpacing, none is above niceMax, and in exact arithmetic the
\* last is niceMax.
C14_TicksAsClaimed ==
    \A t \in TickIters :
        (Consumed(tickgen[t])
         /\ ValidAxis(tickgen[t].used[1], tickgen[t].used[2],
                      tickgen[t].used[3])) =>
            /\ TicksInSteps(tickgen[t])
            /\ \A i \in 1..(Len(tickgen[t].out) - 1) :
                   tickgen[t].out[i + 1][3] = tickgen[t].out[i][3]
            /\ NoRounding(tickgen[t]) =>
                   tickgen[t].out[Len(tickgen[t].out)] = scaler.niceMax

\* C14 amended: consecutive ticks differ by tickSpacing up to the rounding of
\* the float sum (exactly, in exact arithmetic); the rest as claimed, for a
\* sequence consumed while nothing else changes the scaler.
C14_TicksAreSteps ==
    \A t \in TickIters :
        (Consumed(tickgen[t])
         /\ ValidAxis(tickgen[t].used[1], tickgen[t].used[2],
                      tickgen[t].used[3])) =>
            /\ TicksInSteps(tickgen[t])
            /\ NoRounding(tickgen[t]) =>
                   tickgen[t].out[Len(tickgen[t].out)] = scaler.niceMax

\* C14 witness: a consumed sequence of four ticks or more whose running sum
\* was rounded.
C14_Witness ==
    /\ Consumed(tickgen["t1"])
    /\ Len(tickgen["t1"].out) >= 4
    /\ \E i \in 2..Len(tickgen["t1"].out) : tickgen["t1"].out[i][3] # 0

\* The arguments generate_ticks was called with.
TickArgs(g) == << g.min_point, g.max_point, g.max_ticks >>

\* C15 as claimed: two generate_ticks calls with the same arguments have
\* yielded the same ticks, whatever else was called and in whatever order
\* the two were consumed.
C15_SameArgsSameTicks ==
    (/\ tickgen["t1"].pc = "done" /\ tickgen["t2"].pc = "done"
     /\ TickArgs(tickgen["t1"]) = TickArgs(tickgen["t2"])) =>
        tickgen["t1"].out = tickgen["t2"].out

\* C15 amended: two generate_ticks calls with the same arguments have
\* yielded the same ticks when both ran with the same stored max_n_ticks and
\* nothing changed niceMax or tickSpacing while either was suspended.
C15_SameParamsSameTicks ==
    (/\ Consumed(tickgen["t1"]) /\ Consumed(tickgen["t2"])
     /\ TickArgs(tickgen["t1"]) = TickArgs(tickgen["t2"])
     /\ tickgen["t1"].used = tickgen["t2"].used) =>
        tickgen["t1"].out = tickgen["t2"].out

\* C15 witness: two calls without a tick count have been consumed, both with
\* the same stored max_n_ticks, which was assigned anew afterwards, and
\* yielded three ticks or more each.
C15_Witness ==
    /\ Consumed(tickgen["t1"]) /\ Consumed(tickgen["t2"])
    /\ TickArgs(tickgen["t1"]) = TickArgs(tickgen["t2"])
    /\ IsNone(tickgen["t1"].max_ticks)
    /\ tickgen["t1"].used = tickgen["t2"].used
    /\ tickgen["t1"].used[3] # scaler.max_n_ticks
    /\ Len(tickgen["t1"].out) >= 3

\* ------------------------------------------------------------ claims: Plot

\* C16: in a scrolling plot given data by add_data only, each time with a Y
\* value for every trace, the X buffer and every trace's buffer have the
\* same capacity and the same length.
C16_BuffersInStep ==
    (plot.made /\ ~IsNone(plot.scrolling) /\ ~plot.partial /\ ~plot.rebound) =>
        \A i \in DOMAIN plot.traces :
            /\ plot.traces[i].kind = "buffer" /\ plot.xdata.kind = "buffer"
            /\ plot.traces[i].size = plot.xdata.size
            /\ plot.traces[i].count = plot.xdata.count
            /\ Len(BufferIter(plot.traces[i])) = Len(BufferIter(plot.xdata))

\* C16 witness: a scrolling plot with two traces whose buffers are full and
\* have dropped a point.
C16_Witness ==
    /\ plot.made /\ ~IsNone(plot.scrolling) /\ ~plot.partial /\ ~plot.rebound
    /\ Len(plot.traces) = 2
    /\ plot.xdata.count = 2 /\ plot.xdata.index_get = 1
    /\ call.name = "add_data"

\* The sequences given to set_data do not fit a plot of n traces: there are
\* not n Y sequences, or one is not as long as the X sequence.
Mismatch(xs, yss, n) ==
    Len(yss) # n \/ \E i \in DOMAIN yss : Len(yss[i]) # Len(xs)

\* C17: set_data fails with ShapeMismatchError and binds nothing when the
\* sequences do not fit the plot, and succeeds otherwise.
C17_SetDataChecksShape ==
    [][(nops' # nops /\ call'.name = "set_data") =>
           IF Mismatch(call'.arg[1], call'.arg[2], Len(plot.traces))
           THEN /\ call'.err = "ShapeMismatchError"
                /\ plot'.xdata = plot.xdata
                /\ plot'.traces = plot.traces
           ELSE call'.err = "none"]_vars

\* The data sources of the plot.
Sources == {plot.xdata} \cup Range(plot.traces)

\* The least and the greatest member of a set of numbers.
Extent(S) == << SetMin(S), SetMax(S) >>

\* C18 as claimed: find_extremes of a buffer into which a value was ever put
\* is its all-time extent (min_value, max_value), and of a non-empty static
\* sequence its least and greatest element.
C18_ExtremesAsClaimed ==
    plot.made =>
        \A src \in Sources :
            /\ (src.kind = "buffer" /\ src.seen # {}) =>
                   /\ FindExtremes(src, FALSE) = Some(Extent(src.seen))
                   /\ FindExtremes(src, FALSE) =
                          Some(<< Val(src.min_val), Val(src.max_val) >>)
            /\ (src.kind = "list" /\ Len(src.items) > 0) =>
                   FindExtremes(src, FALSE) = Some(Extent(Range(src.items)))

\* C18 amended: find_extremes of a buffer that holds a live element is its
\* all-time extent (min_value, max_value), and of a non-empty static sequence
\* its least and greatest element; of a buffer with no live element, an
\* empty sequence or no source it is None.
C18_ExtremesOfLive ==
    plot.made =>
        \A src \in Sources :
            /\ (src.kind = "buffer" /\ src.count > 0) =>
                   /\ FindExtremes(src, FALSE) = Some(Extent(src.seen))
                   /\ FindExtremes(src, FALSE) =
                          Some(<< Val(src.min_val), Val(src.max_val) >>)
            /\ (src.kind = "list" /\ Len(src.items) > 0) =>
                   FindExtremes(src, FALSE) = Some(Extent(Range(src.items)))
            /\ (\/ src.kind = "none"
                \/ src.kind = "buffer" /\ src.count = 0
                \/ src.kind = "list" /\ Len(src.items) = 0) =>
                   IsNone(FindExtremes(src, FALSE))

\* The least value ever put in buffer b is no longer among its live ones.
MinLeft(b) ==
    b.kind = "buffer" /\ b.count > 0
    /\ SetMin(b.seen) \notin Range(BufferIter(b))

\* C18 witness: add_data has made a trace's buffer drop the least value it
\* was given.
C18_Witness ==
    /\ plot.made
    /\ \E i \in DOMAIN plot.traces : MinLeft(plot.traces[i])
    /\ call.name = "add_data"

\* C19: after autoscale_x on an X buffer of two live elements or more,
\* min_x and max_x are the least and the greatest of the live elements.
C19_XRangeIsWindow ==
    (plot.made /\ call.name = "autoscale_x"
     /\ plot.xdata.kind = "buffer" /\ plot.xdata.count >= 2) =>
        << plot.min_x, plot.max_x >> = Extent(Range(BufferIter(plot.xdata)))

\* The extents of the traces that have one: all-time for a buffer, of the
\* current elements for a static sequence.
TraceExtents ==
    {IF plot.traces[i].kind = "buffer" THEN Extent(plot.traces[i].seen)
     ELSE Extent(Range(plot.traces[i].items)) :
        i \in {j \in DOMAIN plot.traces : Truthy(plot.traces[j])}}

NumPoints == IF plot.xdata.kind = "none" THEN 0 ELSE SourceLen(plot.xdata)

\* The axis ranges of plot p.
AxisRanges(p) == << p.min_x, p.max_x, p.min_y, p.max_y >>

\* C21: autoscale_x and autoscale_y on a plot of fewer than two data points
\* (none bound or added included) raise no error and leave min_x, max_x,
\* min_y and max_y as they were.
C21_AutoscaleNoOp ==
    [][(nops' # nops /\ call'.name \in {"autoscale_x", "autoscale_y"}
        /\ NumPoints < 2) =>
           /\ call'.err = "none"
           /\ AxisRanges(plot') = AxisRanges(plot)]_vars

\* ----------------------------------------------- claims: cursors, scaler

\* C28: in a buffer of capacity size > 0 under put and get, index_get and
\* index_put are in 0..size-1 and index_put = (index_get + count) mod size.
C28_CursorsAgree ==
    size > 0 =>
        /\ index_get \in 0..(size - 1)
        /\ index_put \in 0..(size - 1)
        /\ index_put = (index_get + count) % size

\* C28 witness: a get from a buffer whose live elements wrap round the end
\* of the array.
C28_Witness ==
    /\ size > 0 /\ op = "get" /\ count > 0
    /\ index_put < index_get

\* The step, scaled_min and scaled_max stored in scaler sc are what
\* calculate () makes of the min_point, max_point and max_n_ticks stored in it.
Recomputed(sc) == \E r \in Calculate(sc) : r.err = "none" /\ r.sc = sc

\* C29: after every construction, max_ticks assignment, generate_ticks call
\* and step of its generator, the scaler's vrange, tickSpacing, niceMin and
\* niceMax are calculate () of its stored min_point, max_point and
\* max_n_ticks, and a call that raised has left all of them as they were.
C29_DerivedFromStored ==
    [][(scaler'.made => Recomputed(scaler'))
       /\ ((scaler.made /\ call'.err # "none") => scaler' = scaler)]_vars

\* ------------------------------------------------- claims: Plot rendering

\* C23: after an autoscale pass over two data points or more, max_x > min_x,
\* and max_y > min_y when a trace has an extent to scale to.
C23_AxesNotDegenerate ==
    (plot.made /\ NumPoints >= 2 /\ call.err = "none") =>
        /\ call.name = "autoscale_x" => plot.max_x > plot.min_x
        /\ (call.name = "autoscale_y" /\ TraceExtents # {}) =>
               plot.max_y > plot.min_y

\* The pixel calls were made on a view whose axes both have max > min.
ProperView(v) == RLt(v.min_x, v.max_x) /\ RLt(v.min_y, v.max_y)

\* C24: with max > min on both axes, x2pixels maps min_x to abx_left and
\* max_x to abx_left + abx_width and does not decrease with x; y2pixels maps
\* min_y to abx_top + abx_height and max_y to abx_top and does not increase
\* with y; a value inside the range maps into the axes box.
C24_PixelsAffine ==
    (call.name = "pixels" /\ ProperView(call.arg[1])) =>
        LET v == call.arg[1]
            box == v.sizes
            x == << call.arg[2], call.arg[3] >>
            y == << call.arg[4], call.arg[5] >>
            px == << Val(call.out[1]), Val(call.out[2]) >>
            py == << Val(call.out[3]), Val(call.out[4]) >>
        IN  /\ call.err = "none"
            /\ \A i \in 1..2 :
                   /\ x[i] = v.min_x => px[i] = box.abx_left
                   /\ x[i] = v.max_x => px[i] = box.abx_left + box.abx_width
                   /\ y[i] = v.min_y => py[i] = box.abx_top + box.abx_height
                   /\ y[i] = v.max_y => py[i] = box.abx_top
                   /\ (RLe(v.min_x, x[i]) /\ RLe(x[i], v.max_x)) =>
                          /\ box.abx_left <= px[i]
                          /\ px[i] <= box.abx_left + box.abx_width
                   /\ (RLe(v.min_y, y[i]) /\ RLe(y[i], v.max_y)) =>
                          /\ box.abx_top <= py[i]
                          /\ py[i] <= box.abx_top + box.abx_height
            /\ RLt(x[1], x[2]) => px[1] <= px[2]
            /\ RLt(y[1], y[2]) => py[1] >= py[2]

\* C22: min_x, max_x, min_y and max_y change only when the user sets them
\* or in an autoscale pass (autoscale_x, autoscale_y, or draw with the
\* autoscale flag on): add_data, set_data, a new trace style and a draw with
\* the flag off, grid, pixel mapping and trace plotting included, leave them
\* as they were.
C22_RangesOnlyByScale ==
    [][(AxisRanges(plot') # AxisRanges(plot)) =>
           \/ call'.name \in {"set_ranges", "autoscale_x", "autoscale_y"}
           \/ call'.name = "draw" /\ plot.autoscale]_vars

\* C22 witness: a plot with autoscale off was drawn, grid and data, and kept
\* ranges that an autoscale pass would have changed.
C22_Witness ==
    /\ plot.made /\ call.name = "draw" /\ call.err = "none"
    /\ ~plot.autoscale
    /\ AxisRanges(ScaledY(ScaledX(plot)).plot) # AxisRanges(plot)
    /\ \E j \in DOMAIN call.out : call.out[j].item.kind = "circle"

\* The instructions of a call that plot_data sent for the points of traces.
DataItems ==
    LET items == [j \in DOMAIN call.out |-> call.out[j].item]
    IN  SelectSeq(items, LAMBDA it : "trace" \in DOMAIN it)

RECURSIVE Concat(_, _)
\* The sequences f[1], ..., f[n], one after the other.
Concat(f, n) == IF n = 0 THEN << >> ELSE Concat(f, n - 1) \o f[n]

\* The number of points of trace i that are drawn: the length of the shorter
\* of the X source and the trace's Y source.
Shorter(i) ==
    LET nx == Len(SourceItems(plot.xdata))
        ny == Len(SourceItems(plot.traces[i]))
    IN  IF nx <= ny THEN nx ELSE ny

\* The pixels of point k of trace i.
PointAt(i, k) ==
    << Val(X2Pixels(PlotView(plot), RInt(SourceItems(plot.xdata)[k]), 0)),
       Val(Y2Pixels(PlotView(plot), RInt(SourceItems(plot.traces[i])[k]), 0)) >>

\* What is to be sent for point k of trace i: the line from the point before,
\* if lines are on and there is one, then the marker, if markers are on.
PointItems(i, k) ==
    LET st == plot.styles[i]
    IN  (IF st.lines /\ k > 1
         THEN << Tagged(Line(PointAt(i, k - 1)[1], PointAt(i, k - 1)[2],
                             PointAt(i, k)[1], PointAt(i, k)[2], st.color),
                        i, k) >>
         ELSE << >>)
        \o (IF st.markers
            THEN << Tagged(Circle(PointAt(i, k)[1], PointAt(i, k)[2],
                                  st.color), i, k) >>
            ELSE << >>)

\* The plot has an X source and a Y source for every trace, and ranges with
\* max > min.
Drawable ==
    /\ plot.xdata.kind # "none"
    /\ \A i \in DOMAIN plot.traces : plot.traces[i].kind # "none"
    /\ plot.min_x < plot.max_x /\ plot.min_y < plot.max_y

\* C25: a draw of a plot that has a sender, its sources and proper ranges
\* raises no error, whatever the lengths of the sources, and sends for trace 1, then
\* trace 2, ..., for each of the first min (len X, len Y) points in order,
\* the line to it (lines on, not the first point) and then its marker
\* (markers on), and nothing else for the data.
C25_PairsInOrder ==
    (plot.made /\ call.name = "draw" /\ Drawable /\ ~IsNone(plot.sender)) =>
        /\ call.err = "none"
        /\ DataItems =
               Concat([i \in DOMAIN plot.traces |->
                          Concat([k \in 1..Shorter(i) |-> PointItems(i, k)],
                                 Shorter(i))],
                      Len(plot.traces))

\* C25 witness: a draw of two traces, the first with lines and markers and a
\* Y source longer than the X source, which has two points or more.
C25_Witness ==
    /\ plot.made /\ call.name = "draw" /\ Drawable
    /\ Len(plot.traces) = 2
    /\ plot.styles[1].lines /\ plot.styles[1].markers
    /\ Len(SourceItems(plot.traces[1])) > Len(SourceItems(plot.xdata))
    /\ Len(SourceItems(plot.xdata)) >= 2
    /\ Len(DataItems) >= 5

\* C26: a draw that fails with an error of the scaler or the pixel mapping
\* (no range, or a negative one) has sent nothing to the sender.
C26_NoPartialFrame ==
    (plot.made /\ call.name = "draw"
     /\ call.err \in {"ValueError", "ZeroDivisionError"}) =>
        call.out = << >>

\* The colour trace i is meant to have: the one it was made with, or the
\* palette's for its serial number when none was given.
Intended(i) ==
    LET st == plot.styles[i]
    IN  IF IsNone(st.asked)
        THEN TRACE_COLORS[(st.serial_number % Len(TRACE_COLORS)) + 1]
        ELSE Val(st.asked)

\* C27: every trace has the colour it was made with, the palette's only when
\* none was given, and a draw sends its lines and markers in that colour.
C27_ColorCarried ==
    plot.made =>
        /\ \A i \in DOMAIN plot.styles : plot.styles[i].color = Intended(i)
        /\ call.name = "draw" =>
               \A j \in DOMAIN DataItems :
                   DataItems[j].color = Intended(DataItems[j].trace)

\* ------------------------------------------------------ claims: dashboard

\* What a draw is to write: the page header, each widget's output in the
\* order of the list, the page footer, all to the dashboard's sender.
PageOf(d) ==
    << [to |-> d.send, item |-> PageHeader] >>
    \o [k \in 1..Len(d.widgets) |->
           [to |-> d.send, item |-> WidgetItem(d.widgets[k])]]
    \o << [to |-> d.send, item |-> PageFooter] >>

\* C30: after any sequence of add_widget and set_sender calls, the sender
\* of every widget in the list is the dashboard's current sender, and a draw
\* of a dashboard that has a sender writes the page header, the output of
\* each widget in the order added, and the page footer.
C30_SenderAndOrder ==
    dash.made =>
        /\ \A k \in 1..Len(dash.widgets) :
               ReadSender(dash, dash.widgets[k]) = dash.send
        /\ (call.name = "MicroPyDash.draw" /\ dash.send # "none") =>
               /\ call.err = "none"
               /\ call.out = PageOf(dash)

====
